---- MODULE Spec2Model ----
(***************************************************************************)
(* Model of torchaudio_contrib/augmentation.py: the spectrogram            *)
(* augmentation transforms StretchSpecTime, AdditiveNoise and the axis     *)
(* masking functions mask_along_axis / mask_along_axis_batch with their    *)
(* module wrappers _AxisMasking, FrequencyMasking and TimeMasking.         *)
(*                                                                         *)
(* Numbers.  Floating point values are modelled by exact rationals         *)
(* [num, den] (den > 0).  A uniform draw of torch.rand is a grid point     *)
(* n / Res with n in 0..Res-1, so it lies in [0,1).  A normal draw of      *)
(* torch.normal(mean, std) is mean + std * z for a standard draw z.        *)
(* Entries of the phase advance table are kept as multiples of pi.         *)
(***************************************************************************)
EXTENDS Integers, Sequences, FiniteSets, TLC

----------------------------------------------------------------------------
(* Bounds of the model *)

NumBatch == 2
NumFreq == 2
NumTime == 3
Res == 3
MaxValue == 6
MaxBins == 4
MaxHop == 2
MaxScale == 2
MaxRateNum == 4
RateDen == 2
MaxCalls == 2

----------------------------------------------------------------------------
(* Rationals *)

Rat(n, d) == [num |-> n, den |-> d]
RInt(k) == Rat(k, 1)
RMul(a, b) == Rat(a.num * b.num, a.den * b.den)
RSub(a, b) == Rat(a.num * b.den - b.num * a.den, a.den * b.den)
REq(a, b) == a.num * b.den = b.num * a.den
RLess(a, b) == a.num * b.den < b.num * a.den

\* Tensor.long(): conversion to integer truncates toward zero
Long(r) == IF r.num >= 0 THEN r.num \div r.den ELSE -((-r.num) \div r.den)

\* torch.rand: one uniform value in [0, 1), the grid point n / Res
Rand(n) == Rat(n, Res)
Draws == 0..(Res - 1)

----------------------------------------------------------------------------
(* Tensors: [shape |-> <<B, C, F, T>>, data |-> [index tuple -> value]] *)

Indices(shape) ==
    (0..(shape[1] - 1)) \X (0..(shape[2] - 1)) \X (0..(shape[3] - 1)) \X (0..(shape[4] - 1))

\* the (batch, channel) pairs of spect.shape[:2]
Pairs(shape) == (0..(shape[1] - 1)) \X (0..(shape[2] - 1))

\* Tensor.size(dim) accepts dim in [-rank, rank - 1] and raises IndexError otherwise
ValidDim(t, axis) == axis >= -Len(t.shape) /\ axis < Len(t.shape)
Size(t, axis) == t.shape[IF axis < 0 THEN axis + Len(t.shape) + 1 ELSE axis + 1]

Swap(s, i, j) == [k \in DOMAIN s |-> IF k = i THEN s[j] ELSE IF k = j THEN s[i] ELSE s[k]]

\* Tensor.transpose(a, b): a view with the two dimensions exchanged
Transpose(t, a, b) ==
    LET sh == Swap(t.shape, a + 1, b + 1)
    IN  [shape |-> sh, data |-> [idx \in Indices(sh) |-> t.data[Swap(idx, a + 1, b + 1)]]]

FullShape == <<NumBatch, 1, NumFreq, NumTime>>
SingleShape == <<1, 1, NumFreq, NumTime>>

\* spectrogram contents before a call: all ones, or pairwise distinct positive values
\* (never the fill values of MaskValues)
Ones(shape) == [shape |-> shape, data |-> [idx \in Indices(shape) |-> 1]]
Ramp(shape) ==
    [shape |-> shape,
     data |-> [idx \in Indices(shape) |->
                 1 + idx[4] + shape[4] * (idx[3] + shape[3] * (idx[2] + shape[2] * idx[1]))]]
InitSpects(shape) == {Ones(shape), Ramp(shape)}

None == <<>>
Some(x) == <<x>>

----------------------------------------------------------------------------
(* mask_along_axis: per (batch, channel) masking *)

\* value = torch.rand(...) * max_value, for the draw n / Res
Value(max_value, n) == RMul(Rand(n), RInt(max_value))

\* min_value = torch.rand(...) * (spect.size(axis) - value), for the draw m / Res
MinValue(L, max_value, n, m) == RMul(Rand(m), RSub(RInt(L), Value(max_value, n)))

\* mask_start = min_value.long()
MaskStart(L, max_value, n, m) == Long(MinValue(L, max_value, n, m))

\* mask_end = min_value.long() + value.long()
MaskEnd(L, max_value, n, m) == MaskStart(L, max_value, n, m) + Long(Value(max_value, n))

\* variant of InMask: the upper bound taken inclusive, (mask <= mask_end)
InMaskClosed(i, s, e) == i >= s /\ i <= e

\* (mask >= mask_start) & (mask < mask_end), mask being arange(0, size(axis))
InMask(i, s, e) == i >= s /\ i < e

\* view[(mask >= mask_start) & (mask < mask_end)] = mask_value: the boolean mask
\* indexes the first three dimensions of the view, the last one is filled whole
MaskedFill(view, start, end, mask_value) ==
    [view EXCEPT !.data =
        [idx \in DOMAIN view.data |->
            IF InMask(idx[3], start[<<idx[1], idx[2]>>], end[<<idx[1], idx[2]>>])
            THEN mask_value ELSE view.data[idx]]]

\* u1, u2: the two tensors of uniform draws of shape spect.shape[:2].
\* The write goes through a transposed view, so the argument itself is changed.
MaskAlongAxis(spect, max_value, mask_value, axis, u1, u2) ==
    IF axis \notin {2, 3}
    THEN [err |-> "ValueError", spect |-> spect, result |-> None,
          span |-> <<>>, start |-> <<>>, end |-> <<>>]
    ELSE LET L == Size(spect, axis)
             P == Pairs(spect.shape)
             start == [p \in P |-> MaskStart(L, max_value, u1[p], u2[p])]
             end == [p \in P |-> MaskEnd(L, max_value, u1[p], u2[p])]
             view == Transpose(spect, 2, axis)
             filled == MaskedFill(view, start, end, mask_value)
             back == Transpose(filled, 2, axis)
         IN  [err |-> "none", spect |-> back, result |-> Some(back),
              span |-> [p \in P |-> Long(Value(max_value, u1[p]))],
              start |-> start, end |-> end]

----------------------------------------------------------------------------
(* mask_along_axis_batch: one mask for the whole batch *)

Min(a, b) == IF a < b THEN a ELSE b
Max(a, b) == IF a < b THEN b ELSE a

\* a slice bound of start:end on a dimension of length L: a negative bound
\* counts from the end, and the bound is clamped to [0, L]
SliceBound(x, L) == IF x < 0 THEN Max(x + L, 0) ELSE Min(x, L)

\* the indices selected by the slice s:e on a dimension of length L
SliceIndices(s, e, L) == {i \in 0..(L - 1) : i >= SliceBound(s, L) /\ i < SliceBound(e, L)}

\* variant of SliceFill: the slice written to the first example only,
\* spect[0, :, s:e] = v
SliceFillFirstExample(spect, dim, s, e, mask_value) ==
    [spect EXCEPT !.data =
        [idx \in DOMAIN spect.data |->
            IF idx[1] = 0 /\ idx[dim] \in SliceIndices(s, e, spect.shape[dim])
            THEN mask_value ELSE spect.data[idx]]]

\* spect[:, :, s:e] = v (dim = 3) or spect[:, :, :, s:e] = v (dim = 4)
SliceFill(spect, dim, s, e, mask_value) ==
    [spect EXCEPT !.data =
        [idx \in DOMAIN spect.data |->
            IF idx[dim] \in SliceIndices(s, e, spect.shape[dim])
            THEN mask_value ELSE spect.data[idx]]]

\* n, m: the two uniform draws of torch.rand(1)
MaskAlongAxisBatch(spect, max_value, mask_value, axis, n, m) ==
    IF ~ValidDim(spect, axis)
    THEN [err |-> "IndexError", spect |-> spect, result |-> None,
          span |-> <<>>, start |-> <<>>, end |-> <<>>]
    ELSE LET L == Size(spect, axis)
             s == MaskStart(L, max_value, n, m)
             e == MaskEnd(L, max_value, n, m)
         IN  IF axis \in {2, 3}
             THEN LET filled == SliceFill(spect, axis + 1, s, e, mask_value)
                  IN  [err |-> "none", spect |-> filled, result |-> Some(filled),
                       span |-> <<Long(Value(max_value, n))>>,
                       start |-> <<s>>, end |-> <<e>>]
             ELSE [err |-> "ValueError", spect |-> spect, result |-> None,
                   span |-> <<>>, start |-> <<>>, end |-> <<>>]

----------------------------------------------------------------------------
(* _AxisMasking, FrequencyMasking, TimeMasking *)

AxisMaskingInit(max_value, axis, across_batch) ==
    [kind |-> "AxisMasking", max_value |-> max_value, axis |-> axis,
     masking |-> IF across_batch THEN "mask_along_axis_batch" ELSE "mask_along_axis"]

FrequencyMaskingInit(max_freq, across_batch) == AxisMaskingInit(max_freq, 2, across_batch)

TimeMaskingInit(max_time, across_batch) == AxisMaskingInit(max_time, 3, across_batch)

----------------------------------------------------------------------------
(* AdditiveNoise *)

AdditiveNoiseInit(scale) == [kind |-> "AdditiveNoise", scale |-> scale, loc |-> 0]

\* variant of AdditiveNoiseForward: the noise added in place, spect += noise
AdditiveNoiseForwardInPlace(self, spect, scale_arg, z) ==
    LET scale == IF scale_arg = None THEN self.scale ELSE scale_arg[1]
        noise == [idx \in DOMAIN spect.data |-> self.loc + scale * z[idx]]
        sum == [shape |-> spect.shape,
                data |-> [idx \in DOMAIN spect.data |-> spect.data[idx] + noise[idx]]]
    IN  IF scale < 0
        THEN [self |-> self, spect |-> spect, err |-> "RuntimeError", used |-> scale,
              noise |-> <<>>, result |-> None]
        ELSE [self |-> self, spect |-> sum, err |-> "none", used |-> scale,
              noise |-> noise, result |-> Some(sum)]

\* z: the standard normal draws, one per element.  torch.normal rejects a
\* negative standard deviation; a standard deviation of 0 yields the mean.
AdditiveNoiseForward(self, spect, scale_arg, z) ==
    LET scale == IF scale_arg = None THEN self.scale ELSE scale_arg[1]
        noise == [idx \in DOMAIN spect.data |-> self.loc + scale * z[idx]]
    IN  IF scale < 0
        THEN [self |-> self, spect |-> spect, err |-> "RuntimeError", used |-> scale,
              noise |-> <<>>, result |-> None]
        ELSE [self |-> self, spect |-> spect, err |-> "none", used |-> scale,
              noise |-> noise,
              result |-> Some([shape |-> spect.shape,
                               data |-> [idx \in DOMAIN spect.data |->
                                           spect.data[idx] + noise[idx]]])]

----------------------------------------------------------------------------
(* StretchSpecTime *)

RAdd(a, b) == Rat(a.num * b.den + b.num * a.den, a.den * b.den)

\* variant of Linspace: the end point excluded, steps of (end - start) / steps
LinspaceOpenEnd(start, end, steps) ==
    [k \in 1..steps |->
        IF steps = 1 THEN start
        ELSE RAdd(start, RMul(Rat(k - 1, steps), RSub(end, start)))]

\* torch.linspace(start, end, steps): start + k * (end - start) / (steps - 1) for
\* k = 0..steps-1, and the single value start when steps = 1
Linspace(start, end, steps) ==
    [k \in 1..steps |->
        IF steps = 1 THEN start
        ELSE RAdd(start, RMul(Rat(k - 1, steps - 1), RSub(end, start)))]

\* phi_advance, in multiples of pi.  torch.linspace raises for a negative
\* number of steps.
StretchSpecTimeInit(rate, hop_len, num_bins) ==
    IF num_bins < 0
    THEN [kind |-> "none"]
    ELSE [kind |-> "StretchSpecTime", rate |-> rate,
          phi_advance |-> Linspace(RInt(0), RInt(hop_len), num_bins)]

\* functional.phase_vocoder: the output has one frame per time step
\* 0, rate, 2 * rate, ... below the number of input frames
PhaseVocoder(spect, rate, phi_advance) ==
    IF rate.num <= 0
    THEN [err |-> "InvalidParameter", result |-> None]
    ELSE IF Size(spect, 2) # Len(phi_advance)
    THEN [err |-> "ShapeMismatch", result |-> None]
    ELSE LET T == Size(spect, 3)
             steps == {i \in 0..(T * rate.den) : RLess(RMul(RInt(i), rate), RInt(T))}
         IN  [err |-> "none",
              result |-> Some([shape |-> [spect.shape EXCEPT ![4] = Cardinality(steps)]])]

\* variant of StretchSpecTimeForward: the rate argument ignored
StretchSpecTimeForwardDefaultOnly(self, spect, rate_arg) ==
    LET out == PhaseVocoder(spect, self.rate, self.phi_advance)
    IN  [self |-> self, spect |-> spect, err |-> out.err, used |-> self.rate,
         result |-> out.result]

\* variant of StretchSpecTimeForward: the rate argument stored, self.rate = rate
StretchSpecTimeForwardStoreRate(self, spect, rate_arg) ==
    LET rate == IF rate_arg = None THEN self.rate ELSE rate_arg[1]
        out == PhaseVocoder(spect, rate, self.phi_advance)
    IN  [self |-> [self EXCEPT !.rate = rate], spect |-> spect, err |-> out.err,
         used |-> rate, result |-> out.result]

StretchSpecTimeForward(self, spect, rate_arg) ==
    LET rate == IF rate_arg = None THEN self.rate ELSE rate_arg[1]
        out == PhaseVocoder(spect, rate, self.phi_advance)
    IN  [self |-> self, spect |-> spect, err |-> out.err, used |-> rate,
         result |-> out.result]

----------------------------------------------------------------------------
(* The inputs the model enumerates *)

Rates == {Rat(n, RateDen) : n \in (-1)..MaxRateNum}
Hops == (-1)..MaxHop
Bins == (-1)..MaxBins
Scales == (-1)..MaxScale
MaxValues == 1..MaxValue
AxisValues == (-1)..Len(FullShape)
MaskValues == {0, -1}
NoiseVals == {-1, 0, 1}

\* standard normal draws for a tensor of the given shape: two values in a
\* checkerboard over the elements
NoiseDraws(shape) ==
    {[idx \in Indices(shape) |->
        IF (idx[1] + idx[2] + idx[3] + idx[4]) % 2 = 0 THEN a ELSE b] :
     a \in NoiseVals, b \in NoiseVals}

NoComp == [kind |-> "none"]
NoCall == [op |-> "none"]

----------------------------------------------------------------------------
(* State *)

VARIABLES
    comp,      \* the component the caller holds (NoComp before construction)
    built,     \* the component as its constructor returned it
    ctor,      \* the constructor call made: its name, arguments and error
    spect,     \* the caller's spectrogram tensor
    last,      \* the last forward call: arguments, locals, error and result
    budget,    \* forward calls the caller still makes
    th,        \* concurrent callers: each with its own component and spectrogram
    loc        \* the local variables of the calls in progress, one frame per call

seqVars == <<comp, built, ctor, spect, last, budget>>
concVars == <<th, loc>>
vars == <<comp, built, ctor, spect, last, budget, th, loc>>

\* a caller holding one spectrogram of the full shape, making one forward call
Init ==
    /\ comp = NoComp
    /\ built = NoComp
    /\ ctor = NoCall
    /\ spect = Ramp(FullShape)
    /\ last = NoCall
    /\ budget = 1
    /\ th = <<>>
    /\ loc = <<>>

\* a caller holding a single-example spectrogram, making up to MaxCalls calls
InitSeq ==
    /\ comp = NoComp
    /\ built = NoComp
    /\ ctor = NoCall
    /\ spect \in InitSpects(SingleShape)
    /\ last = NoCall
    /\ budget = MaxCalls
    /\ th = <<>>
    /\ loc = <<>>

----------------------------------------------------------------------------
(* Construction *)

ConstructStretchSpecTime ==
    /\ comp = NoComp
    /\ ctor = NoCall
    /\ \E rate \in Rates, hop_len \in Hops, num_bins \in Bins :
          LET c == StretchSpecTimeInit(rate, hop_len, num_bins)
          IN  /\ comp' = c
              /\ built' = c
              /\ ctor' = [op |-> "StretchSpecTime", rate |-> rate, hop_len |-> hop_len,
                          num_bins |-> num_bins,
                          err |-> IF c = NoComp THEN "RuntimeError" ELSE "none"]
    /\ UNCHANGED <<spect, last, budget, th, loc>>

ConstructAdditiveNoise ==
    /\ comp = NoComp
    /\ ctor = NoCall
    /\ \E scale \in Scales :
          /\ comp' = AdditiveNoiseInit(scale)
          /\ built' = AdditiveNoiseInit(scale)
          /\ ctor' = [op |-> "AdditiveNoise", scale |-> scale, err |-> "none"]
    /\ UNCHANGED <<spect, last, budget, th, loc>>

ConstructFrequencyMasking ==
    /\ comp = NoComp
    /\ ctor = NoCall
    /\ \E max_freq \in MaxValues, across_batch \in BOOLEAN :
          /\ comp' = FrequencyMaskingInit(max_freq, across_batch)
          /\ built' = FrequencyMaskingInit(max_freq, across_batch)
    /\ ctor' = [op |-> "_AxisMasking", err |-> "none"]
    /\ UNCHANGED <<spect, last, budget, th, loc>>

ConstructTimeMasking ==
    /\ comp = NoComp
    /\ ctor = NoCall
    /\ \E max_time \in MaxValues, across_batch \in BOOLEAN :
          /\ comp' = TimeMaskingInit(max_time, across_batch)
          /\ built' = TimeMaskingInit(max_time, across_batch)
    /\ ctor' = [op |-> "_AxisMasking", err |-> "none"]
    /\ UNCHANGED <<spect, last, budget, th, loc>>

ConstructAxisMasking ==
    /\ comp = NoComp
    /\ ctor = NoCall
    /\ \E max_value \in MaxValues, axis \in AxisValues, across_batch \in BOOLEAN :
          /\ comp' = AxisMaskingInit(max_value, axis, across_batch)
          /\ built' = AxisMaskingInit(max_value, axis, across_batch)
    /\ ctor' = [op |-> "_AxisMasking", err |-> "none"]
    /\ UNCHANGED <<spect, last, budget, th, loc>>

----------------------------------------------------------------------------
(* Forward calls *)

ForwardStretchSpecTime ==
    /\ comp.kind = "StretchSpecTime"
    /\ budget > 0
    /\ \E rate_arg \in {None} \cup {Some(r) : r \in Rates} :
          LET out == StretchSpecTimeForward(comp, spect, rate_arg)
          IN  /\ comp' = out.self
              /\ spect' = out.spect
              /\ last' = [op |-> "StretchSpecTime.forward", self |-> comp, pre |-> spect,
                          arg |-> rate_arg, used |-> out.used, err |-> out.err,
                          result |-> out.result]
    /\ budget' = budget - 1
    /\ UNCHANGED <<built, ctor, th, loc>>

ForwardAdditiveNoise ==
    /\ comp.kind = "AdditiveNoise"
    /\ budget > 0
    /\ \E scale_arg \in {None} \cup {Some(x) : x \in Scales}, z \in NoiseDraws(spect.shape) :
          LET out == AdditiveNoiseForward(comp, spect, scale_arg, z)
          IN  /\ comp' = out.self
              /\ spect' = out.spect
              /\ last' = [op |-> "AdditiveNoise.forward", self |-> comp, pre |-> spect,
                          arg |-> scale_arg, used |-> out.used, err |-> out.err,
                          noise |-> out.noise, result |-> out.result]
    /\ budget' = budget - 1
    /\ UNCHANGED <<built, ctor, th, loc>>

\* _AxisMasking.forward with self.masking = mask_along_axis
ForwardMaskAlongAxis ==
    /\ comp.kind = "AxisMasking"
    /\ comp.masking = "mask_along_axis"
    /\ budget > 0
    /\ \E mask_value \in MaskValues,
          u1 \in [Pairs(spect.shape) -> Draws], u2 \in [Pairs(spect.shape) -> Draws] :
          LET out == MaskAlongAxis(spect, comp.max_value, mask_value, comp.axis, u1, u2)
          IN  /\ spect' = out.spect
              /\ last' = [op |-> "mask_along_axis", self |-> comp, pre |-> spect,
                          mask_value |-> mask_value, err |-> out.err,
                          span |-> out.span, start |-> out.start, end |-> out.end,
                          result |-> out.result]
    /\ budget' = budget - 1
    /\ UNCHANGED <<comp, built, ctor, th, loc>>

\* _AxisMasking.forward with self.masking = mask_along_axis_batch
ForwardMaskAlongAxisBatch ==
    /\ comp.kind = "AxisMasking"
    /\ comp.masking = "mask_along_axis_batch"
    /\ budget > 0
    /\ \E mask_value \in MaskValues, n \in Draws, m \in Draws :
          LET out == MaskAlongAxisBatch(spect, comp.max_value, mask_value, comp.axis, n, m)
          IN  /\ spect' = out.spect
              /\ last' = [op |-> "mask_along_axis_batch", self |-> comp, pre |-> spect,
                          mask_value |-> mask_value, err |-> out.err,
                          span |-> out.span, start |-> out.start, end |-> out.end,
                          result |-> out.result]
    /\ budget' = budget - 1
    /\ UNCHANGED <<comp, built, ctor, th, loc>>

Next ==
    \/ ConstructStretchSpecTime
    \/ ConstructAdditiveNoise
    \/ ConstructFrequencyMasking
    \/ ConstructTimeMasking
    \/ ConstructAxisMasking
    \/ ForwardStretchSpecTime
    \/ ForwardAdditiveNoise
    \/ ForwardMaskAlongAxis
    \/ ForwardMaskAlongAxisBatch

Spec == Init /\ [][Next]_vars

SpecSeq == InitSeq /\ [][Next]_vars

----------------------------------------------------------------------------
(* Concurrent callers.  Each thread holds its own component and its own      *)
(* spectrogram and makes one forward call, which runs statement by           *)
(* statement, interleaved with the other thread's call.  The draws come from *)
(* the generator shared by all callers; they are the inputs of the step that *)
(* draws them and are recorded with the thread.                              *)

Threads == {1, 2}

\* variant of Frame: the local variables kept in one place shared by all calls
SharedFrame(i) == 1

\* the frame holding the local variables of thread i's call
Frame(i) == i

EmptyFrame ==
    [value |-> [p \in Pairs(SingleShape) |-> RInt(0)],
     min_value |-> [p \in Pairs(SingleShape) |-> RInt(0)],
     bvalue |-> RInt(0), bmin_value |-> RInt(0),
     scale |-> 0, noise |-> [idx \in Indices(SingleShape) |-> 0],
     rate |-> RInt(1)]

ConcComps ==
    {FrequencyMaskingInit(MaxValue, FALSE), TimeMaskingInit(MaxValue, FALSE),
     TimeMaskingInit(MaxValue, TRUE), AxisMaskingInit(1, 1, FALSE),
     AdditiveNoiseInit(1), StretchSpecTimeInit(Rat(MaxRateNum, RateDen), 1, NumFreq)}

ThreadInit(c, s) ==
    [comp |-> c, spect |-> s, pre |-> s, pc |-> "call", mask_value |-> 0, arg |-> None,
     u1 |-> <<>>, u2 |-> <<>>, z |-> <<>>, result |-> None, err |-> "none"]

InitConc ==
    /\ comp = NoComp
    /\ built = NoComp
    /\ ctor = NoCall
    /\ spect = Ones(SingleShape)
    /\ last = NoCall
    /\ budget = 0
    /\ th \in [Threads -> {ThreadInit(c, Ramp(SingleShape)) : c \in ConcComps}]
    /\ loc = [f \in Threads |-> EmptyFrame]

\* forward(...): dispatch to the function or method body
Call(i) ==
    /\ th[i].pc = "call"
    /\ th' = [th EXCEPT ![i].pc =
                 IF th[i].comp.kind = "StretchSpecTime" THEN "stretch_rate"
                 ELSE IF th[i].comp.kind = "AdditiveNoise" THEN "noise_scale"
                 ELSE IF th[i].comp.masking = "mask_along_axis" THEN "mask_check"
                 ELSE "batch_value"]
    /\ UNCHANGED <<seqVars, loc>>

\* mask_along_axis: if axis not in [2, 3]: raise ValueError
MaskCheck(i) ==
    /\ th[i].pc = "mask_check"
    /\ th' = IF th[i].comp.axis \notin {2, 3}
             THEN [th EXCEPT ![i].pc = "done", ![i].err = "ValueError"]
             ELSE [th EXCEPT ![i].pc = "mask_value"]
    /\ UNCHANGED <<seqVars, loc>>

\* value = torch.rand(spect.shape[:2]) * max_value
MaskDrawValue(i) ==
    /\ th[i].pc = "mask_value"
    /\ \E u1 \in [Pairs(th[i].spect.shape) -> Draws] :
          /\ loc' = [loc EXCEPT ![Frame(i)].value =
                        [p \in Pairs(th[i].spect.shape) |->
                            Value(th[i].comp.max_value, u1[p])]]
          /\ th' = [th EXCEPT ![i].pc = "mask_min_value", ![i].u1 = u1]
    /\ UNCHANGED seqVars

\* min_value = torch.rand(spect.shape[:2]) * (spect.size(axis) - value)
MaskDrawMinValue(i) ==
    /\ th[i].pc = "mask_min_value"
    /\ \E u2 \in [Pairs(th[i].spect.shape) -> Draws] :
          /\ loc' = [loc EXCEPT ![Frame(i)].min_value =
                        [p \in Pairs(th[i].spect.shape) |->
                            RMul(Rand(u2[p]),
                                 RSub(RInt(Size(th[i].spect, th[i].comp.axis)),
                                      loc[Frame(i)].value[p]))]]
          /\ th' = [th EXCEPT ![i].pc = "mask_write", ![i].u2 = u2]
    /\ UNCHANGED seqVars

\* mask_start, mask_end, the masked write through the transposed view, return
MaskWrite(i) ==
    /\ th[i].pc = "mask_write"
    /\ LET f == loc[Frame(i)]
           P == Pairs(th[i].spect.shape)
           start == [p \in P |-> Long(f.min_value[p])]
           end == [p \in P |-> Long(f.min_value[p]) + Long(f.value[p])]
           view == Transpose(th[i].spect, 2, th[i].comp.axis)
           back == Transpose(MaskedFill(view, start, end, th[i].mask_value),
                             2, th[i].comp.axis)
       IN  th' = [th EXCEPT ![i].pc = "done", ![i].spect = back, ![i].result = Some(back)]
    /\ UNCHANGED <<seqVars, loc>>

\* mask_along_axis_batch: value = torch.rand(1) * max_value
BatchDrawValue(i) ==
    /\ th[i].pc = "batch_value"
    /\ \E n \in Draws :
          /\ loc' = [loc EXCEPT ![Frame(i)].bvalue = Value(th[i].comp.max_value, n)]
          /\ th' = [th EXCEPT ![i].pc = "batch_min_value", ![i].u1 = n]
    /\ UNCHANGED seqVars

\* min_value = torch.rand(1) * (spect.size(axis) - value)
BatchDrawMinValue(i) ==
    /\ th[i].pc = "batch_min_value"
    /\ \E m \in Draws :
          /\ loc' = [loc EXCEPT ![Frame(i)].bmin_value =
                        RMul(Rand(m), RSub(RInt(Size(th[i].spect, th[i].comp.axis)),
                                           loc[Frame(i)].bvalue))]
          /\ th' = [th EXCEPT ![i].pc = "batch_write", ![i].u2 = m]
    /\ UNCHANGED seqVars

\* mask_start, mask_end, the slice write on axis 2 or 3, return
BatchWrite(i) ==
    /\ th[i].pc = "batch_write"
    /\ LET f == loc[Frame(i)]
           s == Long(f.bmin_value)
           e == Long(f.bmin_value) + Long(f.bvalue)
           filled == SliceFill(th[i].spect, th[i].comp.axis + 1, s, e, th[i].mask_value)
       IN  th' = [th EXCEPT ![i].pc = "done", ![i].spect = filled,
                            ![i].result = Some(filled)]
    /\ UNCHANGED <<seqVars, loc>>

\* AdditiveNoise.forward: scale = self.scale, or the argument given
NoiseScale(i) ==
    /\ th[i].pc = "noise_scale"
    /\ \E scale_arg \in {None, Some(MaxScale)} :
          /\ loc' = [loc EXCEPT ![Frame(i)].scale =
                        IF scale_arg = None THEN th[i].comp.scale ELSE scale_arg[1]]
          /\ th' = [th EXCEPT ![i].pc = "noise_normal", ![i].arg = scale_arg]
    /\ UNCHANGED seqVars

\* noise = torch.normal(loc, scale)
NoiseNormal(i) ==
    /\ th[i].pc = "noise_normal"
    /\ \E z \in NoiseDraws(th[i].spect.shape) :
          /\ loc' = [loc EXCEPT ![Frame(i)].noise =
                        [idx \in DOMAIN th[i].spect.data |->
                            th[i].comp.loc + loc[Frame(i)].scale * z[idx]]]
          /\ th' = [th EXCEPT ![i].pc = "noise_add", ![i].z = z]
    /\ UNCHANGED seqVars

\* return spect + noise
NoiseAdd(i) ==
    /\ th[i].pc = "noise_add"
    /\ th' = [th EXCEPT ![i].pc = "done",
                 ![i].result =
                     Some([shape |-> th[i].spect.shape,
                           data |-> [idx \in DOMAIN th[i].spect.data |->
                                       th[i].spect.data[idx] + loc[Frame(i)].noise[idx]]])]
    /\ UNCHANGED <<seqVars, loc>>

\* StretchSpecTime.forward: rate = self.rate, or the argument given
StretchRate(i) ==
    /\ th[i].pc = "stretch_rate"
    /\ \E rate_arg \in {None, Some(RInt(1))} :
          /\ loc' = [loc EXCEPT ![Frame(i)].rate =
                        IF rate_arg = None THEN th[i].comp.rate ELSE rate_arg[1]]
          /\ th' = [th EXCEPT ![i].pc = "stretch_vocoder", ![i].arg = rate_arg]
    /\ UNCHANGED seqVars

\* return phase_vocoder(spect, rate, self.phi_advance)
StretchVocoder(i) ==
    /\ th[i].pc = "stretch_vocoder"
    /\ LET out == PhaseVocoder(th[i].spect, loc[Frame(i)].rate, th[i].comp.phi_advance)
       IN  th' = [th EXCEPT ![i].pc = "done", ![i].err = out.err, ![i].result = out.result]
    /\ UNCHANGED <<seqVars, loc>>

NextConc ==
    \E i \in Threads :
        \/ Call(i)
        \/ MaskCheck(i)
        \/ MaskDrawValue(i)
        \/ MaskDrawMinValue(i)
        \/ MaskWrite(i)
        \/ BatchDrawValue(i)
        \/ BatchDrawMinValue(i)
        \/ BatchWrite(i)
        \/ NoiseScale(i)
        \/ NoiseNormal(i)
        \/ NoiseAdd(i)
        \/ StretchRate(i)
        \/ StretchVocoder(i)

SpecConc == InitConc /\ [][NextConc]_vars

\* what thread i's call yields when run alone on the thread's spectrogram as
\* it was before the call, with the draws the thread received
Alone(i) ==
    LET t == th[i]
    IN  IF t.comp.kind = "StretchSpecTime"
        THEN LET o == StretchSpecTimeForward(t.comp, t.pre, t.arg)
             IN  [spect |-> o.spect, result |-> o.result, err |-> o.err]
        ELSE IF t.comp.kind = "AdditiveNoise"
        THEN LET o == AdditiveNoiseForward(t.comp, t.pre, t.arg, t.z)
             IN  [spect |-> o.spect, result |-> o.result, err |-> o.err]
        ELSE IF t.comp.masking = "mask_along_axis"
        THEN LET o == MaskAlongAxis(t.pre, t.comp.max_value, t.mask_value, t.comp.axis,
                                    t.u1, t.u2)
             IN  [spect |-> o.spect, result |-> o.result, err |-> o.err]
        ELSE LET o == MaskAlongAxisBatch(t.pre, t.comp.max_value, t.mask_value,
                                         t.comp.axis, t.u1, t.u2)
             IN  [spect |-> o.spect, result |-> o.result, err |-> o.err]

----------------------------------------------------------------------------
(* Properties *)

MaskOps == {"mask_along_axis", "mask_along_axis_batch"}
MaskDone == last.op \in MaskOps /\ last.err = "none"

\* the indices along dimension dim (1-based) of pair <<b, c>> whose elements
\* all / some hold the value v
AllFilled(t, dim, b, c, v) ==
    {i \in 0..(t.shape[dim] - 1) :
        \A idx \in DOMAIN t.data :
            (idx[1] = b /\ idx[2] = c /\ idx[dim] = i) => t.data[idx] = v}
SomeFilled(t, dim, b, c, v) ==
    {i \in 0..(t.shape[dim] - 1) :
        \E idx \in DOMAIN t.data :
            idx[1] = b /\ idx[2] = c /\ idx[dim] = i /\ t.data[idx] = v}

\* C1: after a masking call with max_value M on an axis of length L, for every
\* (batch, channel) pair the span is in [0, M) and 0 <= start <= end <= L with
\* end = start + span, whatever the uniform draws.
C1_MaskedIntervalInAxis ==
    MaskDone =>
        LET M == last.self.max_value
            L == Size(last.pre, last.self.axis)
        IN  \A p \in DOMAIN last.span :
                /\ 0 <= last.span[p] /\ last.span[p] < M
                /\ last.end[p] = last.start[p] + last.span[p]
                /\ 0 <= last.start[p]
                /\ last.start[p] <= last.end[p]
                /\ last.end[p] <= L

\* C2: after a call of mask_along_axis_batch one span and one start were drawn,
\* and the masked indices along the axis are one and the same contiguous range
\* lo..hi-1 for every (batch, channel) pair.
C2_SharedMaskSameRange ==
    (last.op = "mask_along_axis_batch" /\ last.err = "none") =>
        LET dim == last.self.axis + 1
            L == spect.shape[dim]
        IN  /\ Len(last.span) = 1 /\ Len(last.start) = 1 /\ Len(last.end) = 1
            /\ \E lo \in 0..L, hi \in 0..L :
                  /\ lo <= hi
                  /\ \A p \in Pairs(spect.shape) :
                        /\ AllFilled(spect, dim, p[1], p[2], last.mask_value) = lo..(hi - 1)
                        /\ SomeFilled(spect, dim, p[1], p[2], last.mask_value) = lo..(hi - 1)

C2_Witness ==
    /\ last.op = "mask_along_axis_batch" /\ last.err = "none"
    /\ last.self.axis = 2
    /\ spect.shape[1] >= 2
    /\ \A p \in Pairs(spect.shape) : AllFilled(spect, 3, p[1], p[2], 0) = {1}

\* C3: a masking call with an axis other than 2 or 3 fails with the error of
\* the axis check (ValueError, "Only Frequency and Time masking is supported")
\* under both policies, and the spectrogram is as it was before the call.
C3_InvalidAxisRejected ==
    (last.op \in MaskOps /\ last.self.axis \notin {2, 3}) =>
        /\ last.err = "ValueError"
        /\ last.result = None
        /\ spect = last.pre

\* C4: a non-positive rate, hop_len, num_bins or scale is rejected: no
\* component is built from it at construction, and a forward call overriding
\* rate or scale with it fails without a result.
C4_NonPositiveRejected ==
    /\ (ctor.op = "StretchSpecTime"
            /\ (ctor.rate.num <= 0 \/ ctor.hop_len <= 0 \/ ctor.num_bins <= 0))
          => (ctor.err # "none" /\ comp = NoComp)
    /\ (ctor.op = "AdditiveNoise" /\ ctor.scale <= 0)
          => (ctor.err # "none" /\ comp = NoComp)
    /\ (last.op = "StretchSpecTime.forward" /\ last.arg # None /\ last.arg[1].num <= 0)
          => (last.err # "none" /\ last.result = None)
    /\ (last.op = "AdditiveNoise.forward" /\ last.arg # None /\ last.arg[1] <= 0)
          => (last.err # "none" /\ last.result = None)

\* C5: AdditiveNoise.forward leaves its input as it was, and its result is
\* element-wise the input plus the noise drawn.
C5_NoiseInputUnchanged ==
    last.op = "AdditiveNoise.forward" =>
        /\ spect = last.pre
        /\ last.err = "none" =>
              /\ last.result[1].shape = last.pre.shape
              /\ \A idx \in DOMAIN last.pre.data :
                    last.result[1].data[idx] = last.pre.data[idx] + last.noise[idx]

C5_Witness ==
    /\ last.op = "AdditiveNoise.forward" /\ last.err = "none"
    /\ last.arg # None
    /\ \E idx \in DOMAIN spect.data : last.noise[idx] > 0
    /\ \E idx \in DOMAIN spect.data : last.noise[idx] < 0

\* the rate a stretch call is to use: the override when given, else the default
CallRate == IF last.arg = None THEN built.rate ELSE last.arg[1]

\* C6: a stretch of T >= 1 frames at a positive rate r (bin count matching the
\* table) yields exactly ceil(T / r) >= 1 frames, i.e. the n with
\* (n - 1) * r < T <= n * r; batch, channel and bin counts are unchanged.
C6_StretchFrames ==
    (last.op = "StretchSpecTime.forward" /\ CallRate.num > 0
        /\ Len(built.phi_advance) = last.pre.shape[3]) =>
        /\ last.err = "none"
        /\ LET out == last.result[1].shape
               n == out[4]
               T == last.pre.shape[4]
           IN  /\ out[1] = last.pre.shape[1]
               /\ out[2] = last.pre.shape[2]
               /\ out[3] = last.pre.shape[3]
               /\ n >= 1
               /\ (n - 1) * CallRate.num < T * CallRate.den
               /\ T * CallRate.den <= n * CallRate.num

C6_Witness ==
    /\ last.op = "StretchSpecTime.forward" /\ last.err = "none"
    /\ last.arg # None
    /\ ~REq(last.arg[1], built.rate)
    /\ last.result[1].shape[4] < last.pre.shape[4]
    /\ last.result[1].shape[4] > 1

\* C7 as stated, for positive rate, hop_len and num_bins: the table has
\* num_bins entries, entry k is
\* k * pi * hop_len / (num_bins - 1) for every k in 0..num_bins-1, the first
\* entry is 0 and the last is pi * hop_len.
C7_TableAllBinCounts ==
    (ctor.op = "StretchSpecTime" /\ ctor.err = "none"
        /\ ctor.rate.num > 0 /\ ctor.hop_len > 0 /\ ctor.num_bins > 0) =>
        LET phi == comp.phi_advance
            nb == ctor.num_bins
        IN  /\ Len(phi) = nb
            /\ \A k \in 0..(nb - 1) :
                  nb - 1 # 0 /\ REq(phi[k + 1], Rat(k * ctor.hop_len, nb - 1))
            /\ nb >= 1 => (REq(phi[1], RInt(0)) /\ REq(phi[nb], RInt(ctor.hop_len)))

\* C7 amended: the table has num_bins entries; for num_bins >= 2 entry k is
\* k * pi * hop_len / (num_bins - 1) (first 0, last pi * hop_len); for
\* num_bins = 1 it is the single entry 0.
C7_TableTwoOrMoreBins ==
    (ctor.op = "StretchSpecTime" /\ ctor.err = "none") =>
        LET phi == comp.phi_advance
            nb == ctor.num_bins
        IN  /\ Len(phi) = nb
            /\ nb >= 2 =>
                  /\ \A k \in 0..(nb - 1) : REq(phi[k + 1], Rat(k * ctor.hop_len, nb - 1))
                  /\ REq(phi[1], RInt(0))
                  /\ REq(phi[nb], RInt(ctor.hop_len))
            /\ nb = 1 => REq(phi[1], RInt(0))

C7_Witness ==
    /\ ctor.op = "StretchSpecTime" /\ ctor.err = "none"
    /\ ctor.num_bins = 4 /\ ctor.hop_len = 2
    /\ REq(comp.phi_advance[1], RInt(0))
    /\ REq(comp.phi_advance[2], Rat(2, 3))
    /\ REq(comp.phi_advance[3], Rat(4, 3))
    /\ REq(comp.phi_advance[4], RInt(2))

\* C9: after mask_along_axis on axis 2 or 3 every element whose index i along
\* the axis has start <= i < end for its own (batch, channel) pair holds the
\* fill value, at every position of the other axis, and every other element
\* holds the value it had before the call.
C9_PerExampleFrame ==
    (last.op = "mask_along_axis" /\ last.err = "none") =>
        /\ spect.shape = last.pre.shape
        /\ \A idx \in DOMAIN last.pre.data :
              LET p == <<idx[1], idx[2]>>
                  i == idx[last.self.axis + 1]
              IN  spect.data[idx] =
                     IF last.start[p] <= i /\ i < last.end[p]
                     THEN last.mask_value ELSE last.pre.data[idx]

C9_Witness ==
    /\ last.op = "mask_along_axis" /\ last.err = "none"
    /\ last.self.axis = 3
    /\ last.start[<<0, 0>>] = 1 /\ last.end[<<0, 0>>] = 2
    /\ last.start[<<1, 0>>] = 0 /\ last.end[<<1, 0>>] = 2
    /\ \A f \in 0..(spect.shape[3] - 1) :
          /\ spect.data[<<0, 0, f, 1>>] = last.mask_value
          /\ spect.data[<<0, 0, f, 0>>] = last.pre.data[<<0, 0, f, 0>>]
          /\ spect.data[<<1, 0, f, 0>>] = last.mask_value

\* C10: a forward call uses the override when one is given and the stored
\* default otherwise, and after any sequence of calls the component is as its
\* constructor left it.
C10_ConfigUnchanged ==
    /\ comp = built
    /\ last.op = "StretchSpecTime.forward" =>
          last.used = (IF last.arg = None THEN built.rate ELSE last.arg[1])
    /\ last.op = "AdditiveNoise.forward" =>
          last.used = (IF last.arg = None THEN built.scale ELSE last.arg[1])
    /\ last.op \in MaskOps => last.self = built

C10_Witness ==
    /\ budget = 0
    /\ last.op = "StretchSpecTime.forward"
    /\ last.arg = None
    /\ last.self = built
    /\ last.used = built.rate

\* C8: calls running concurrently on different spectrograms do not interact:
\* in every interleaving, once a thread's call has returned, its spectrogram,
\* its result and its error are those of the same call run alone with the
\* same draws.
C8_ConcurrentCallsIndependent ==
    \A i \in DOMAIN th :
        th[i].pc = "done" =>
            /\ th[i].spect = Alone(i).spect
            /\ th[i].result = Alone(i).result
            /\ th[i].err = Alone(i).err

C8_Witness ==
    /\ DOMAIN th = Threads
    /\ \A i \in Threads : th[i].pc = "done"
    /\ th[1].comp = th[2].comp
    /\ th[1].comp.kind = "AxisMasking" /\ th[1].comp.masking = "mask_along_axis"
    /\ th[1].err = "none"
    /\ th[1].spect # th[2].spect
    /\ th[1].spect # th[1].pre
    /\ th[2].spect # th[2].pre

====
